---- MODULE Spec2Model ----
(***************************************************************************)
(* One browser tab running the dice configuration store                    *)
(* (frontend/src/domain/diceConfig/stores/diceConfigStore.ts): the zustand *)
(* store with its persist middleware, the window 'storage' listener and    *)
(* the polling fallback installed by useDiceConfigStore.subscribe.         *)
(* Other tabs and the wall clock are the environment.                      *)
(***************************************************************************)
EXTENDS Integers, Sequences, FiniteSets, TLC

----------------------------------------------------------------------------
(* Bounds of the model *)

\* clock readings explored after the first one
MaxClock == 1
\* distinct outcomes of Math.random()
MaxRand == 1
\* cap on syncRetryCount (the code's counter is unbounded)
MaxRetry == 3
\* interval handles the platform can hand out at the same time
MaxTimers == 2

----------------------------------------------------------------------------
(* Program constants and values *)

SESSION_EXPIRY_MS == 24 * 60 * 60 * 1000

\* the literal the failure counter is compared with in incrementSyncRetry
PollingThreshold == 3

STORE_KEY == "dice-config-store"

\* first clock reading of the model (epoch milliseconds)
T0 == 2 * SESSION_EXPIRY_MS

Clock == T0 .. (T0 + MaxClock)

\* timestamps carried by records other tabs wrote: older than 24h, written at
\* the first clock reading, and ahead of every reading of this tab's clock
Stamps == {T0 - SESSION_EXPIRY_MS - 1, T0, T0 + MaxClock + 1}

Rand == 1 .. MaxRand

\* JavaScript null / undefined
NULL == [null |-> TRUE]

StorageTypes == {"localStorage", "sessionStorage", "unavailable"}

DiceConfig(sides, method) ==
  [diceSides |-> sides,
   selectionMethod |-> method,
   probabilityRange |-> [min |-> 1, max |-> sides],
   individualProbability |-> <<1, sides>>,
   displayFormat |-> <<"D", sides>>]

Configs == {DiceConfig(6, "predefined"), DiceConfig(7, "custom")}

SessionConfig(sides, method, ts, st, key) ==
  [diceSides |-> sides,
   selectionMethod |-> method,
   timestamp |-> ts,
   storageType |-> st,
   syncKey |-> key]

generateSyncKey(t, r) == [t |-> t, r |-> r]

\* faulty variant: a record exactly SESSION_EXPIRY_MS old counts as expired
isSessionExpiredAtLimit(timestamp, t) == t - timestamp >= SESSION_EXPIRY_MS

isSessionExpired(timestamp, t) == t - timestamp > SESSION_EXPIRY_MS

\* sessionConfig?.timestamp || 0
currentTimestamp(sc) == IF sc = NULL THEN 0 ELSE sc.timestamp

----------------------------------------------------------------------------
(* Values held under a storage key, as the JSON text denotes them *)

\* getItem returned null / event.newValue is null
Absent == [kind |-> "absent", config |-> NULL, sessionConfig |-> NULL]

\* text JSON.parse throws on
Malformed == [kind |-> "malformed", config |-> NULL, sessionConfig |-> NULL]

\* {"state": {"config": c, "sessionConfig": sc}, "version": 0}
Json(c, sc) == [kind |-> "json", config |-> c, sessionConfig |-> sc]

\* what the persist middleware serialises: partialize picks config and sessionConfig
partialize(s) == Json(s.config, s.sessionConfig)

\* the SessionMetadata another tab's setConfig(c) recorded at time ts
WrittenSession(c, ts) ==
  SessionConfig(c.diceSides, c.selectionMethod, ts, "localStorage", generateSyncKey(ts, 1))

\* records another tab's persist middleware can have written
WrittenRecords ==
  {Json(NULL, NULL)} \cup {Json(c, WrittenSession(c, ts)) : c \in Configs, ts \in Stamps}

\* what this tab finds under the key after a write it got no event for
MissedRecords ==
  {Malformed}
    \cup {Json(DiceConfig(7, "custom"), WrittenSession(DiceConfig(7, "custom"), ts)) :
            ts \in {T0 - SESSION_EXPIRY_MS - 1, T0 + MaxClock}}

\* payloads a storage event for the store key can carry
Payloads ==
  {Absent, Malformed} \cup WrittenRecords
    \cup {Json(NULL, WrittenSession(DiceConfig(6, "predefined"), T0 + MaxClock + 1))}

----------------------------------------------------------------------------
VARIABLES
  pc,               \* "boot": store not yet hydrated; "ready": module evaluated
  now,              \* what Date.now() returns
  config,           \* store: DiceConfig | null
  sessionConfig,    \* store: SessionConfig | null
  storageType,      \* store: active medium
  syncRetryCount,   \* store: consecutive failed synchronisations
  pollingActive,    \* store: polling fallback flag
  stored,           \* localStorage value under STORE_KEY
  pollingInterval,  \* module variable pollingInterval: 0 is null, else a handle
  timers,           \* platform intervals: handle -> state captured by the callback
  lastOp,           \* history: which callback ran last and how it ended
  failRun,          \* history: failures in a row since counter and flag were reset, -1 once the flag was set by hand
  tracking,         \* whether the two histories below are kept
  lastStamp,        \* history: timestamp of this tab's last SessionMetadata write, 0 if none
  delivered,        \* history: the adoptable notification the last operation delivered, if any
  probe,            \* the last run of getStorageType: what the media did and what it returned
  checked,          \* the last call of diceConfigValidateCustom: its body and its result
  tabs,             \* several tabs on one origin: each tab's store
  disk,             \* several tabs: the localStorage value under STORE_KEY they share
  inbox,            \* several tabs: storage events queued for each tab
  clock,            \* several tabs: Date.now(), kept up to the order of the timestamps on record
  chosen            \* several tabs, history: the Configurations the user set, in order

\* the single tab of Spec and SpecTracked
storeVars == <<pc, now, config, sessionConfig, storageType, syncRetryCount, pollingActive,
               stored, pollingInterval, timers, lastOp, failRun, tracking, lastStamp, delivered>>

\* the functions run on their own
inputVars == <<probe, checked>>

\* the tabs sharing the key
tabVars == <<tabs, disk, inbox, clock, chosen>>

vars == <<storeVars, inputVars, tabVars>>

\* the tab's state as one record, threaded through the store's functions
Cur ==
  [config |-> config,
   sessionConfig |-> sessionConfig,
   storageType |-> storageType,
   syncRetryCount |-> syncRetryCount,
   pollingActive |-> pollingActive,
   stored |-> stored,
   pollingInterval |-> pollingInterval,
   timers |-> timers,
   subscribed |-> pc = "ready"]

SyncState(s) ==
  [config |-> s.config,
   sessionConfig |-> s.sessionConfig,
   storageType |-> s.storageType,
   syncRetryCount |-> s.syncRetryCount,
   pollingActive |-> s.pollingActive]

Handles == 1 .. MaxTimers

ActiveTimers(tm) == {h \in Handles : tm[h] # NULL}

----------------------------------------------------------------------------
(* The store *)

\* what the interval callback reads of the state object it closes over
Captured(s) ==
  [storageType |-> s.storageType, timestamp |-> currentTimestamp(s.sessionConfig)]

\* setInterval: the platform hands out an unused handle
setInterval(s) ==
  LET free == Handles \ ActiveTimers(s.timers) IN
  IF free = {} THEN s
  ELSE LET h == CHOOSE x \in free : \A y \in free : x <= y IN
       [s EXCEPT !.pollingInterval = h,
                 !.timers[h] = Captured(s)]

clearInterval(s) ==
  [s EXCEPT !.timers[s.pollingInterval] = NULL, !.pollingInterval = 0]

\* faulty variant: starts an interval without looking at pollingInterval
subscriberUnguarded(s) ==
  IF s.pollingActive THEN setInterval(s)
  ELSE IF s.pollingInterval # 0 THEN clearInterval(s)
  ELSE s

\* the listener given to useDiceConfigStore.subscribe, run after every set
subscriber(s) ==
  IF s.pollingActive /\ s.pollingInterval = 0 THEN setInterval(s)
  ELSE IF ~s.pollingActive /\ s.pollingInterval # 0 THEN clearInterval(s)
  ELSE s

\* set(partial) of the persisted store: merge, notify the subscriber, write the
\* partialized state under STORE_KEY
set(s, partial) ==
  LET merged == [f \in DOMAIN s |-> IF f \in DOMAIN partial THEN partial[f] ELSE s[f]]
      seen == IF merged.subscribed THEN subscriber(merged) ELSE merged
  IN [seen EXCEPT !.stored = partialize(seen)]

\* faulty variant: records localStorage as the medium whatever the store's is
setConfigAssumesLocal(s, c, t, r) ==
  set(s, [config |-> c,
          sessionConfig |-> SessionConfig(c.diceSides, c.selectionMethod, t,
                                          "localStorage", generateSyncKey(t, r))])

\* faulty variant: a setConfig that also leaves polling
setConfigEndsPolling(s, c, t, r) ==
  set(s, [config |-> c,
          sessionConfig |-> SessionConfig(c.diceSides, c.selectionMethod, t,
                                          s.storageType, generateSyncKey(t, r)),
          pollingActive |-> FALSE])

setConfig(s, c, t, r) ==
  set(s, [config |-> c,
          sessionConfig |-> SessionConfig(c.diceSides, c.selectionMethod, t,
                                          s.storageType, generateSyncKey(t, r))])

\* setConfig(null) throws a TypeError reading config.diceSides, before any set
setConfigThrows(c) == c = NULL

\* faulty variant: spreads the updates after the fresh timestamp
updateSessionConfigStampFirst(s, updates, t) ==
  IF s.sessionConfig = NULL THEN s
  ELSE LET current == [s.sessionConfig EXCEPT !.timestamp = t]
           spread == [f \in DOMAIN current |->
                        IF f \in DOMAIN updates THEN updates[f] ELSE current[f]]
       IN set(s, [sessionConfig |-> spread])

updateSessionConfig(s, updates, t) ==
  IF s.sessionConfig = NULL THEN s
  ELSE LET current == s.sessionConfig
           spread == [f \in DOMAIN current |->
                        IF f \in DOMAIN updates THEN updates[f] ELSE current[f]]
       IN set(s, [sessionConfig |-> [spread EXCEPT !.timestamp = t]])

setStorageType(s, type) == set(s, [storageType |-> type])

\* faulty variant: escalates one failure late
incrementSyncRetryLate(s) ==
  LET count == s.syncRetryCount + 1
      s1 == set(s, [syncRetryCount |-> count])
  IN IF count > PollingThreshold THEN set(s1, [pollingActive |-> TRUE]) ELSE s1

incrementSyncRetry(s) ==
  LET count == s.syncRetryCount + 1
      s1 == set(s, [syncRetryCount |-> count])
  IN IF count >= PollingThreshold THEN set(s1, [pollingActive |-> TRUE]) ELSE s1

resetSyncRetry(s) == set(s, [syncRetryCount |-> 0, pollingActive |-> FALSE])

setPollingActive(s, active) == set(s, [pollingActive |-> active])

\* faulty variant: clears everything but the polling flag
clearConfigKeepsPolling(s) ==
  set(s, [config |-> NULL, sessionConfig |-> NULL, syncRetryCount |-> 0])

\* faulty variant: clears the Configuration and keeps the SessionMetadata
clearConfigKeepsSession(s) ==
  set(s, [config |-> NULL, syncRetryCount |-> 0, pollingActive |-> FALSE])

clearConfig(s) ==
  set(s, [config |-> NULL, sessionConfig |-> NULL,
          syncRetryCount |-> 0, pollingActive |-> FALSE])

----------------------------------------------------------------------------
(* The callbacks *)

\* what a callback did: the store afterwards and how the call ended
Result(s, outcome) == [s |-> s, outcome |-> outcome]

\* faulty variant: adopts a payload whose timestamp ties with the tab's
storageListenerAdoptsTies(s, key, newValue, t, r) ==
  IF key # STORE_KEY THEN Result(s, "ignored")
  ELSE IF newValue.kind = "malformed" THEN Result(incrementSyncRetry(s), "unparsable")
  ELSE IF newValue.kind = "absent" \/ newValue.sessionConfig = NULL THEN Result(s, "ignored")
  ELSE IF newValue.sessionConfig.timestamp >= currentTimestamp(s.sessionConfig)
       THEN IF setConfigThrows(newValue.config)
            THEN Result(incrementSyncRetry(s), "threw")
            ELSE Result(resetSyncRetry(setConfig(s, newValue.config, t, r)), "adopted")
       ELSE Result(s, "stale")

\* window.addEventListener('storage', ...)
storageListener(s, key, newValue, t, r) ==
  IF key # STORE_KEY THEN Result(s, "ignored")
  ELSE IF newValue.kind = "malformed" THEN Result(incrementSyncRetry(s), "unparsable")
  ELSE IF newValue.kind = "absent" \/ newValue.sessionConfig = NULL THEN Result(s, "ignored")
  ELSE IF newValue.sessionConfig.timestamp > currentTimestamp(s.sessionConfig)
       THEN IF setConfigThrows(newValue.config)
            THEN Result(incrementSyncRetry(s), "threw")
            ELSE Result(resetSyncRetry(setConfig(s, newValue.config, t, r)), "adopted")
       ELSE Result(s, "stale")

\* storage.getItem(STORE_KEY): the persist middleware writes localStorage only,
\* and nothing in the program writes sessionStorage
getItem(s, medium) == IF medium = "localStorage" THEN s.stored ELSE Absent

\* faulty variant: a tick that fails counts as a failed synchronisation
pollingCallbackCounts(s, c, t, r) ==
  IF c.storageType = "unavailable" THEN Result(s, "ignored")
  ELSE LET item == getItem(s, c.storageType) IN
       IF item.kind = "absent" THEN Result(s, "ignored")
       ELSE IF item.kind = "malformed" THEN Result(incrementSyncRetry(s), "unparsable")
       ELSE IF currentTimestamp(item.sessionConfig) > c.timestamp
            THEN IF setConfigThrows(item.config)
                 THEN Result(incrementSyncRetry(s), "threw")
                 ELSE Result(resetSyncRetry(setConfig(s, item.config, t, r)), "adopted")
            ELSE Result(s, "stale")

\* the setInterval callback; c is the state object the subscriber closed over
pollingCallback(s, c, t, r) ==
  IF c.storageType = "unavailable" THEN Result(s, "ignored")
  ELSE LET item == getItem(s, c.storageType) IN
       IF item.kind = "absent" THEN Result(s, "ignored")
       ELSE IF item.kind = "malformed" THEN Result(s, "unparsable")
       ELSE IF currentTimestamp(item.sessionConfig) > c.timestamp
            THEN IF setConfigThrows(item.config)
                 THEN Result(s, "threw")
                 ELSE Result(resetSyncRetry(setConfig(s, item.config, t, r)), "adopted")
            ELSE Result(s, "stale")

\* faulty variant: the re-probe corrects the SessionMetadata only
onRehydrateStorageSessionOnly(s, actual, t) ==
  IF s.stored.kind # "json" THEN Result(s, "ignored")
  ELSE LET merged == [s EXCEPT !.config = s.stored.config,
                               !.sessionConfig = s.stored.sessionConfig]
       IN IF merged.sessionConfig = NULL THEN Result(merged, "ignored")
          ELSE IF isSessionExpired(merged.sessionConfig.timestamp, t)
               THEN Result(clearConfig(merged), "expired")
          ELSE IF merged.sessionConfig.storageType # actual
               THEN Result(updateSessionConfig(merged, [storageType |-> actual], t),
                           "reprobed")
          ELSE Result(merged, "restored")

\* persist's hydration: merge the stored state, write it back, then run the
\* onRehydrateStorage callback; actual is what getStorageType() returns in it
onRehydrateStorage(s, actual, t) ==
  IF s.stored.kind # "json" THEN Result(s, "ignored")
  ELSE LET merged == [s EXCEPT !.config = s.stored.config,
                               !.sessionConfig = s.stored.sessionConfig]
       IN IF merged.sessionConfig = NULL THEN Result(merged, "ignored")
          ELSE IF isSessionExpired(merged.sessionConfig.timestamp, t)
               THEN Result(clearConfig(merged), "expired")
          ELSE IF merged.sessionConfig.storageType # actual
               THEN Result(updateSessionConfig(setStorageType(merged, actual),
                                               [storageType |-> actual], t),
                           "reprobed")
          ELSE Result(merged, "restored")

----------------------------------------------------------------------------
(* History bookkeeping *)

\* outcomes of a callback that lastOp remembers; every other step of the tab
\* (a call of one of the store's functions by the page, a callback that ended
\* otherwise) leaves Called
Noted == {"adopted", "threw", "expired", "restored", "reprobed"}

Called == [name |-> "call", outcome |-> "done"]

\* left by clearConfig called by the page
Cleared == [name |-> "clearConfig", outcome |-> "done"]

Op(name, outcome) ==
  IF outcome \in Noted THEN [name |-> name, outcome |-> outcome] ELSE Called

\* outcomes in which the storage listener calls incrementSyncRetry
Failures == {"unparsable", "threw"}

\* the store's fields after a step
Commit(s) ==
  /\ config' = s.config
  /\ sessionConfig' = s.sessionConfig
  /\ storageType' = s.storageType
  /\ syncRetryCount' = s.syncRetryCount
  /\ pollingActive' = s.pollingActive
  /\ stored' = s.stored
  /\ pollingInterval' = s.pollingInterval
  /\ timers' = s.timers

\* lastStamp after a step that ended in store state s
Stamped(wrote, s) ==
  IF tracking /\ wrote THEN s.sessionConfig.timestamp ELSE lastStamp

\* failRun after a failed synchronisation
Failed == IF failRun >= 0 THEN failRun + 1 ELSE failRun

\* a notification the handler can adopt: it carries both a SessionMetadata and
\* a Configuration
WellFormed(key, v) ==
  key = STORE_KEY /\ v.kind = "json" /\ v.sessionConfig # NULL /\ v.config # NULL

\* delivered after a notification: the payload and the tab's timestamp before it
Delivery(key, v) ==
  IF tracking /\ WellFormed(key, v)
  THEN [payload |-> v, base |-> currentTimestamp(sessionConfig)]
  ELSE NULL

----------------------------------------------------------------------------
(* Initial states: a fresh store over whatever an earlier session persisted *)

\* records this program leaves under the key between sessions
PersistedAtBoot ==
  {Absent, Json(NULL, NULL)}
    \cup {Json(c, SessionConfig(c.diceSides, c.selectionMethod, ts, st, generateSyncKey(ts, 1))) :
            c \in {DiceConfig(6, "predefined")},
            ts \in {T0 - SESSION_EXPIRY_MS - 1, T0 - SESSION_EXPIRY_MS, T0},
            st \in {"localStorage", "sessionStorage"}}

Created ==
  /\ pc = "boot"
  /\ now = T0
  /\ config = NULL
  /\ sessionConfig = NULL
  /\ storageType \in StorageTypes
  /\ syncRetryCount = 0
  /\ pollingActive = FALSE
  /\ stored \in PersistedAtBoot
  /\ pollingInterval = 0
  /\ timers = [h \in Handles |-> NULL]
  /\ lastOp = Called
  /\ failRun = 0
  /\ lastStamp = 0
  /\ delivered = NULL

\* the parts of the model a specification does not run
InputsIdle == probe = NULL /\ checked = NULL

TabsIdle == tabs = NULL /\ disk = NULL /\ inbox = NULL /\ clock = 0 /\ chosen = NULL

Init == Created /\ tracking = FALSE /\ InputsIdle /\ TabsIdle

InitTracked == Created /\ tracking = TRUE /\ InputsIdle /\ TabsIdle

----------------------------------------------------------------------------
(* Steps *)

\* Date.now() moves on
Tick ==
  /\ now < T0 + MaxClock
  /\ now' = now + 1
  /\ UNCHANGED <<pc, config, sessionConfig, storageType, syncRetryCount, pollingActive, stored,
                 pollingInterval, timers, lastOp, failRun, tracking, lastStamp, delivered>>
  /\ UNCHANGED <<inputVars, tabVars>>

\* create(persist(...)) hydrates, then the module installs listener and subscriber
LoadOn(actual) ==
  LET res == onRehydrateStorage(Cur, actual, now) IN
  /\ pc = "boot"
  /\ Commit(res.s)
  /\ lastOp' = Op("load", res.outcome)
  /\ lastStamp' = Stamped(res.outcome = "reprobed", res.s)
  /\ pc' = "ready"
  /\ delivered' = NULL
  /\ UNCHANGED <<now, failRun, tracking>>
  /\ UNCHANGED <<inputVars, tabVars>>

Load == \E actual \in StorageTypes : LoadOn(actual)

SetConfigOn(c, r) ==
  LET s == setConfig(Cur, c, now, r) IN
  /\ pc = "ready"
  /\ Commit(s)
  /\ lastOp' = Called
  /\ lastStamp' = Stamped(TRUE, s)
  /\ delivered' = NULL
  /\ UNCHANGED <<pc, now, failRun, tracking>>
  /\ UNCHANGED <<inputVars, tabVars>>

SetConfig == \E c \in Configs, r \in Rand : SetConfigOn(c, r)

\* partial SessionConfig objects a caller passes
Updates == {<<>>, [timestamp |-> T0 - SESSION_EXPIRY_MS - 1]}

UpdateSessionConfigOn(u) ==
  LET s == updateSessionConfig(Cur, u, now) IN
  /\ pc = "ready"
  /\ Commit(s)
  /\ lastOp' = Called
  /\ lastStamp' = Stamped(sessionConfig # NULL, s)
  /\ delivered' = NULL
  /\ UNCHANGED <<pc, now, failRun, tracking>>
  /\ UNCHANGED <<inputVars, tabVars>>

UpdateSessionConfig == \E u \in Updates : UpdateSessionConfigOn(u)

\* media the page reports to the store after load
Reported == {"unavailable"}

SetStorageType ==
  /\ pc = "ready"
  /\ \E type \in Reported : Commit(setStorageType(Cur, type))
  /\ lastOp' = Called
  /\ delivered' = NULL
  /\ UNCHANGED <<pc, now, failRun, tracking, lastStamp>>
  /\ UNCHANGED <<inputVars, tabVars>>

IncrementSyncRetry ==
  /\ pc = "ready"
  /\ syncRetryCount < MaxRetry
  /\ Commit(incrementSyncRetry(Cur))
  /\ lastOp' = Called
  /\ failRun' = Failed
  /\ delivered' = NULL
  /\ UNCHANGED <<pc, now, tracking, lastStamp>>
  /\ UNCHANGED <<inputVars, tabVars>>

ResetSyncRetry ==
  /\ pc = "ready"
  /\ Commit(resetSyncRetry(Cur))
  /\ lastOp' = Called
  /\ failRun' = 0
  /\ delivered' = NULL
  /\ UNCHANGED <<pc, now, tracking, lastStamp>>
  /\ UNCHANGED <<inputVars, tabVars>>

SetPollingActiveOn(active) ==
  /\ pc = "ready"
  /\ Commit(setPollingActive(Cur, active))
  /\ lastOp' = Called
  /\ failRun' = -1
  /\ delivered' = NULL
  /\ UNCHANGED <<pc, now, tracking, lastStamp>>
  /\ UNCHANGED <<inputVars, tabVars>>

SetPollingActive == \E active \in BOOLEAN : SetPollingActiveOn(active)

ClearConfig ==
  /\ pc = "ready"
  /\ Commit(clearConfig(Cur))
  /\ lastOp' = Cleared
  /\ failRun' = 0
  /\ delivered' = NULL
  /\ UNCHANGED <<pc, now, tracking, lastStamp>>
  /\ UNCHANGED <<inputVars, tabVars>>

\* the platform delivers a storage event
StorageEventOn(key, v, r) ==
  LET res == storageListener(Cur, key, v, now, r) IN
  /\ pc = "ready"
  /\ res.outcome \in Failures => syncRetryCount < MaxRetry
  /\ Commit(res.s)
  /\ lastOp' = Op("storage", res.outcome)
  /\ lastStamp' = Stamped(res.outcome = "adopted", res.s)
  /\ failRun' = CASE res.outcome \in Failures -> Failed
                  [] res.outcome = "adopted" -> 0
                  [] OTHER -> failRun
  /\ delivered' = Delivery(key, v)
  /\ UNCHANGED <<pc, now, tracking>>
  /\ UNCHANGED <<inputVars, tabVars>>

StorageEvent ==
  \/ \E v \in Payloads, r \in Rand : StorageEventOn(STORE_KEY, v, r)
  \/ \E r \in Rand : StorageEventOn("other-key", Malformed, r)

\* an interval fires
PollTickOn(h, r) ==
  LET res == pollingCallback(Cur, timers[h], now, r) IN
  /\ pc = "ready"
  /\ h \in ActiveTimers(timers)
  /\ Commit(res.s)
  /\ lastOp' = Op("poll", res.outcome)
  /\ lastStamp' = Stamped(res.outcome = "adopted", res.s)
  /\ failRun' = IF res.outcome = "adopted" THEN 0 ELSE failRun
  /\ delivered' = NULL
  /\ UNCHANGED <<pc, now, tracking>>
  /\ UNCHANGED <<inputVars, tabVars>>

PollTick == \E h \in Handles, r \in Rand : PollTickOn(h, r)

\* Another tab's store writes the shared key and this tab gets no event for it.
\* Only a tick reads the key, and every set of this tab overwrites it: a write
\* made while no interval runs is gone before the first tick, so the step is
\* taken only while polling.
OtherTabWrite ==
  /\ pc = "ready"
  /\ pollingActive
  /\ \E v \in MissedRecords : stored' = v
  /\ UNCHANGED <<pc, now, config, sessionConfig, storageType, syncRetryCount, pollingActive,
                 pollingInterval, timers, lastOp, failRun, tracking, lastStamp, delivered>>
  /\ UNCHANGED <<inputVars, tabVars>>

Next ==
  \/ Tick
  \/ Load
  \/ SetConfig
  \/ UpdateSessionConfig
  \/ SetStorageType
  \/ IncrementSyncRetry
  \/ ResetSyncRetry
  \/ SetPollingActive
  \/ ClearConfig
  \/ StorageEvent
  \/ PollTick
  \/ OtherTabWrite

Spec == Init /\ [][Next]_vars

\* the same tab with the write and delivery histories kept
SpecTracked == InitTracked /\ [][Next]_vars

----------------------------------------------------------------------------
(* getStorageType, run on its own *)

\* what a medium does when the sentinel key is written and deleted
Behaviours == {"works", "setItem throws", "removeItem throws"}

Media == [localStorage : Behaviours, sessionStorage : Behaviours]

\* faulty variant: probes the fallback before the primary
getStorageTypeFallbackFirst(env) ==
  IF env.sessionStorage = "works"
  THEN [type |-> "sessionStorage", probed |-> <<"sessionStorage">>]
  ELSE IF env.localStorage = "works"
       THEN [type |-> "localStorage", probed |-> <<"sessionStorage", "localStorage">>]
       ELSE [type |-> "unavailable", probed |-> <<"sessionStorage", "localStorage">>]

\* the medium returned and the media touched, in order
getStorageType(env) ==
  IF env.localStorage = "works"
  THEN [type |-> "localStorage", probed |-> <<"localStorage">>]
  ELSE IF env.sessionStorage = "works"
       THEN [type |-> "sessionStorage", probed |-> <<"localStorage", "sessionStorage">>]
       ELSE [type |-> "unavailable", probed |-> <<"localStorage", "sessionStorage">>]

\* the probe of the media the page found is run
Probe ==
  /\ probe.returned = NULL
  /\ probe' = [probe EXCEPT !.returned = getStorageType(probe.env)]
  /\ UNCHANGED <<checked, storeVars, tabVars>>

----------------------------------------------------------------------------
(* diceConfigValidateCustom, run on its own *)

\* bound: length of the strings typed into customSides
MaxLen == 3

MIN_SIDES == 2

MAX_SIDES == 1000

Digits == {"0", "1", "2", "3", "4", "5", "6", "7", "8", "9"}

WhiteSpace == {" "}

\* characters the typed strings are made of
Typed == {"0", "1", "2", "9", ".", "-", " ", "a"}

Chars(str) == [t |-> "string", chars |-> str]

\* a JavaScript number: an integer, or a value with a fractional part (v its floor)
Whole(n) == [t |-> "number", kind |-> "int", v |-> n]

Frac(n) == [t |-> "number", kind |-> "frac", v |-> n]

\* an integer-valued double too large to be written out here
Huge == [t |-> "number", kind |-> "huge", v |-> 0]

Infinity == [t |-> "number", kind |-> "inf", v |-> 0]

NaN == [t |-> "number", kind |-> "nan", v |-> 0]

\* a body in which customSides is neither a number nor a string
NoSides == [t |-> "none"]

\* a string of digits that is more than a double can hold
LongDigits == [i \in 1 .. 310 |-> "9"]

StringsUpTo(n) == UNION {[1 .. k -> Typed] : k \in 0 .. n}

Bodies ==
  {NoSides}
    \cup {Whole(n) : n \in {-1, 0, 1, 2, 6, 999, 1000, 1001}}
    \cup {Frac(12), Frac(0), Frac(1000)}
    \cup {Chars(str) : str \in StringsUpTo(MaxLen)}
    \cup {Chars(<<"1", "0", "0", "0">>), Chars(<<"1", "0", "0", "1">>),
          Chars(<<"1", "2", ".", "5">>), Chars(<<"1", "2", ",", "5">>),
          Chars(LongDigits)}

\* inputSchema.safeParse(body): customSides must be a number or a string
inputSchema(body) == body.t \in {"number", "string"} /\ (body.t = "number" => body.kind # "nan")

NonSpace(str) == {i \in 1 .. Len(str) : str[i] \notin WhiteSpace}

\* String.prototype.trim
trim(str) ==
  IF NonSpace(str) = {} THEN <<>>
  ELSE LET first == CHOOSE i \in NonSpace(str) : \A j \in NonSpace(str) : i <= j
           last == CHOOSE i \in NonSpace(str) : \A j \in NonSpace(str) : j <= i
       IN SubSeq(str, first, last)

\* String.prototype.includes for a single character
includes(str, c) == \E i \in 1 .. Len(str) : str[i] = c

\* /^\d+$/.test(str)
OnlyDigits(str) == Len(str) > 0 /\ \A i \in 1 .. Len(str) : str[i] \in Digits

DigitValue(c) ==
  CASE c = "0" -> 0 [] c = "1" -> 1 [] c = "2" -> 2 [] c = "3" -> 3 [] c = "4" -> 4
    [] c = "5" -> 5 [] c = "6" -> 6 [] c = "7" -> 7 [] c = "8" -> 8 [] c = "9" -> 9

RECURSIVE Decimal(_)
Decimal(ds) ==
  IF Len(ds) = 0 THEN 0
  ELSE 10 * Decimal(SubSeq(ds, 1, Len(ds) - 1)) + DigitValue(ds[Len(ds)])

\* the double nearest to the integer a digit string writes: exact up to nine
\* significant digits, Infinity from 310 significant digits on
ToNumber(ds) ==
  LET nonzero == {i \in 1 .. Len(ds) : ds[i] # "0"}
      significant == IF nonzero = {} THEN <<>>
                     ELSE SubSeq(ds, CHOOSE i \in nonzero : \A j \in nonzero : i <= j, Len(ds))
  IN IF Len(significant) <= 9 THEN Whole(Decimal(significant))
     ELSE IF Len(significant) < 310 THEN Huge
     ELSE Infinity

\* parseInt(str, 10): white space, a sign, then the longest run of digits
parseInt(str) ==
  LET lead == IF NonSpace(str) = {} THEN Len(str) + 1
              ELSE CHOOSE i \in NonSpace(str) : \A j \in NonSpace(str) : i <= j
      rest == SubSeq(str, lead, Len(str))
      signed == Len(rest) > 0 /\ rest[1] \in {"-", "+"}
      body == IF signed THEN SubSeq(rest, 2, Len(rest)) ELSE rest
      stops == {i \in 1 .. Len(body) : body[i] \notin Digits}
      run == IF stops = {} THEN body
             ELSE SubSeq(body, 1, (CHOOSE i \in stops : \A j \in stops : i <= j) - 1)
      n == ToNumber(run)
  IN IF Len(run) = 0 THEN NaN
     ELSE IF signed /\ rest[1] = "-" /\ n.kind = "int" THEN Whole(0 - n.v)
     ELSE n

\* Number.isInteger
isInteger(n) == n.kind \in {"int", "huge"}

\* n < k and n > k for a number that passed Number.isInteger
LessThan(n, k) == n.kind = "int" /\ n.v < k

GreaterThan(n, k) == n.kind = "huge" \/ (n.kind = "int" /\ n.v > k)

Valid == [isValid |-> TRUE, errorPriority |-> 0]

Invalid(priority) == [isValid |-> FALSE, errorPriority |-> priority]

diceConfigValidateCustom(body) ==
  IF ~inputSchema(body) THEN Invalid(2)
  ELSE IF body.t = "string" /\ trim(body.chars) = <<>> THEN Invalid(2)
  ELSE IF body.t = "string" /\ (includes(body.chars, ".") \/ includes(body.chars, ","))
       THEN Invalid(1)
  ELSE IF body.t = "string" /\ ~OnlyDigits(body.chars) THEN Invalid(1)
  ELSE LET numericValue == IF body.t = "number" THEN body ELSE parseInt(body.chars) IN
       IF numericValue.kind = "nan" THEN Invalid(1)
       ELSE IF ~isInteger(numericValue) THEN Invalid(1)
       ELSE IF LessThan(numericValue, MIN_SIDES) THEN Invalid(2)
       ELSE IF GreaterThan(numericValue, MAX_SIDES) THEN Invalid(2)
       ELSE Valid

\* the request body received is validated
Validate ==
  /\ checked.result = NULL
  /\ checked' = [checked EXCEPT !.result = diceConfigValidateCustom(checked.body)]
  /\ UNCHANGED <<probe, storeVars, tabVars>>

\* the single tab is not running
StoreIdle ==
  /\ pc = "off"
  /\ now = 0
  /\ config = NULL
  /\ sessionConfig = NULL
  /\ storageType = "unavailable"
  /\ syncRetryCount = 0
  /\ pollingActive = FALSE
  /\ stored = Absent
  /\ pollingInterval = 0
  /\ timers = [h \in Handles |-> NULL]
  /\ lastOp = Called
  /\ failRun = 0
  /\ tracking = FALSE
  /\ lastStamp = 0
  /\ delivered = NULL

\* a page with some media and a request with some body, neither yet looked at
InitFunctions ==
  /\ StoreIdle
  /\ TabsIdle
  /\ probe \in {[env |-> env, returned |-> NULL] : env \in Media}
  /\ checked \in {[body |-> body, result |-> NULL] : body \in Bodies}

NextFunctions == Probe \/ Validate

SpecFunctions == InitFunctions /\ [][NextFunctions]_vars

----------------------------------------------------------------------------
(* Several tabs of one origin sharing the key in localStorage *)

\* bound: tabs open on the origin
MaxTabs == 2
\* bound: storage events queued for one tab
MaxInbox == 2
\* bound: setConfig calls the user makes
MaxChoices == 2

Tabs == 1 .. MaxTabs

\* a tab after its module was evaluated over an empty localStorage
FreshTab ==
  [config |-> NULL,
   sessionConfig |-> NULL,
   storageType |-> "localStorage",
   syncRetryCount |-> 0,
   pollingActive |-> FALSE,
   stored |-> Absent,
   pollingInterval |-> 0,
   timers |-> [h \in Handles |-> NULL],
   subscribed |-> TRUE]

\* tab i's store together with the localStorage value it reads and writes
InTab(i) == [tabs[i] EXCEPT !.stored = disk]

\* The callbacks only compare timestamps with one another and stamp with the
\* present reading of the clock, which no timestamp on record exceeds; the
\* readings are therefore kept up to their order: each becomes its rank among
\* the readings still on record.
Rank(t, used) == Cardinality({u \in used : u < t}) + 1

StampOf(sc) == IF sc = NULL THEN {} ELSE {sc.timestamp}

Ranked(sc, used) ==
  IF sc = NULL THEN NULL
  ELSE [sc EXCEPT !.timestamp = Rank(sc.timestamp, used),
                  !.syncKey = generateSyncKey(Rank(sc.syncKey.t, used), sc.syncKey.r)]

RankedRecord(v, used) ==
  IF v.kind = "json" THEN Json(v.config, Ranked(v.sessionConfig, used)) ELSE v

\* a tab's store with its timestamps ranked; the key is kept in disk
RankedTab(s, used) ==
  [config |-> s.config,
   sessionConfig |-> Ranked(s.sessionConfig, used),
   storageType |-> s.storageType,
   syncRetryCount |-> s.syncRetryCount,
   pollingActive |-> s.pollingActive,
   stored |-> Absent,
   pollingInterval |-> s.pollingInterval,
   timers |-> s.timers,
   subscribed |-> s.subscribed]

\* the state after a step in which the tabs, the key, the queues and the clock
\* became tb, dk, ib and ck
Settle(tb, dk, ib, ck) ==
  \E used \in {{ck}
                \cup UNION {StampOf(tb[i].sessionConfig) : i \in Tabs}
                \cup StampOf(dk.sessionConfig)
                \cup UNION {UNION {StampOf(ib[i][k].sessionConfig) : k \in 1 .. Len(ib[i])} :
                             i \in Tabs}} :
     /\ tabs' = [i \in Tabs |-> RankedTab(tb[i], used)]
     /\ disk' = RankedRecord(dk, used)
     /\ inbox' = [i \in Tabs |-> [k \in 1 .. Len(ib[i]) |-> RankedRecord(ib[i][k], used)]]
     /\ clock' = Rank(ck, used)

\* the platform queues a storage event in every other tab when a write changed
\* the value under the key
Broadcast(ib, from, dk) ==
  IF dk = disk THEN ib
  ELSE [i \in Tabs |-> IF i = from THEN ib[i] ELSE Append(ib[i], dk)]

\* room for the events a write by tab i may cause
Room(i) == \A j \in Tabs \ {i} : Len(inbox[j]) < MaxInbox

\* Date.now() reads later than at every write made so far: the key holds the
\* last write, and no write is stamped ahead of the clock
Later == disk.sessionConfig = NULL \/ clock > disk.sessionConfig.timestamp

\* the user sets a Configuration in tab i; chosen lists the user's choices in
\* order, each with whether time had passed since the writes before it
UserSetConfig(i, c, r) ==
  /\ Len(chosen) < MaxChoices
  /\ Room(i)
  /\ \E s \in {setConfig(InTab(i), c, clock, r)} :
       \E tb \in {[tabs EXCEPT ![i] = s]}, ib \in {Broadcast(inbox, i, s.stored)} :
         Settle(tb, s.stored, ib, clock)
  /\ chosen' = Append(chosen, [config |-> c, later |-> Later])
  /\ UNCHANGED <<storeVars, inputVars>>

\* tab i's listener handles the storage event at the head of its queue
Deliver(i, r) ==
  /\ inbox[i] # <<>>
  /\ Room(i)
  /\ \E s \in {storageListener(InTab(i), STORE_KEY, Head(inbox[i]), clock, r).s} :
       \E tb \in {[tabs EXCEPT ![i] = s]},
          ib \in {Broadcast([inbox EXCEPT ![i] = Tail(inbox[i])], i, s.stored)} :
         Settle(tb, s.stored, ib, clock)
  /\ UNCHANGED <<chosen, storeVars, inputVars>>

\* the clock moves past every timestamp on record
TabsTick ==
  /\ Settle(tabs, disk, inbox, clock + 1)
  /\ UNCHANGED <<chosen, storeVars, inputVars>>

UserSets == \E i \in Tabs, c \in Configs, r \in Rand : UserSetConfig(i, c, r)

Delivers == \E i \in Tabs, r \in Rand : Deliver(i, r)

InitTabs ==
  /\ StoreIdle
  /\ InputsIdle
  /\ tabs = [i \in Tabs |-> FreshTab]
  /\ disk = Absent
  /\ inbox = [i \in Tabs |-> <<>>]
  /\ clock = 1
  /\ chosen = <<>>

NextTabs == UserSets \/ Delivers \/ TabsTick

\* queued storage events are dispatched and time passes
SpecTabs == InitTabs /\ [][NextTabs]_vars /\ WF_vars(Delivers) /\ WF_vars(TabsTick)

----------------------------------------------------------------------------
(* Kinds of steps, told by what the callback did *)

\* a storage event for the store key whose handling ended in outcome o
StorageEventEnds(o) ==
  \E v \in Payloads, r \in Rand :
    /\ StorageEventOn(STORE_KEY, v, r)
    /\ storageListener(Cur, STORE_KEY, v, now, r).outcome \in o

\* a tick of an interval that ended in outcome o
PollTickEnds(o) ==
  \E h \in Handles, r \in Rand :
    /\ PollTickOn(h, r)
    /\ pollingCallback(Cur, timers[h], now, r).outcome \in o

\* a load that ended in outcome o
LoadEnds(o) ==
  \E actual \in StorageTypes :
    /\ LoadOn(actual)
    /\ onRehydrateStorage(Cur, actual, now).outcome \in o

\* a reconciliation that adopted a record
Adoption == StorageEventEnds({"adopted"}) \/ PollTickEnds({"adopted"})

\* a failed synchronisation: incrementSyncRetry, called from the listener or directly
SyncFailure == IncrementSyncRetry \/ StorageEventEnds(Failures)

\* a step in which the tab records a SessionMetadata
WritesSession ==
  \/ SetConfig
  \/ sessionConfig # NULL /\ UpdateSessionConfig
  \/ Adoption
  \/ LoadEnds({"reprobed"})

----------------------------------------------------------------------------
(* Claims *)

\* C1: a well-formed notification for the store key is adopted (config becomes
\* the payload's, the failure counter 0, pollingActive false) exactly when its
\* timestamp is strictly greater than the tab's (0 when the tab has none);
\* otherwise config, sessionConfig, syncRetryCount and pollingActive stay.
ReconciliationRule ==
  pc = "ready" =>
    \A v \in Payloads, r \in Rand :
      WellFormed(STORE_KEY, v) =>
        LET after == storageListener(Cur, STORE_KEY, v, now, r).s
        IN IF v.sessionConfig.timestamp >
                (IF sessionConfig = NULL THEN 0 ELSE sessionConfig.timestamp)
           THEN /\ after.config = v.config
                /\ after.syncRetryCount = 0
                /\ after.pollingActive = FALSE
           ELSE /\ after.config = config
                /\ after.sessionConfig = sessionConfig
                /\ after.syncRetryCount = syncRetryCount
                /\ after.pollingActive = pollingActive

\* C1 witness: the listener has just adopted a payload
NotificationAdopted ==
  /\ lastOp = [name |-> "storage", outcome |-> "adopted"]
  /\ config # NULL
  /\ syncRetryCount = 0
  /\ ~pollingActive

\* C2: two adoptable notifications with timestamps t1 # t2 and different
\* Configurations, delivered one after the other to a tab whose timestamp was
\* below both, leave the tab with the Configuration of the later timestamp.
LaterRecordWins ==
  [][\A v \in Payloads, r \in Rand :
       ( /\ delivered # NULL
         /\ WellFormed(STORE_KEY, v)
         /\ StorageEventOn(STORE_KEY, v, r)
         /\ delivered.payload.sessionConfig.timestamp # v.sessionConfig.timestamp
         /\ delivered.payload.config # v.config
         /\ delivered.base < delivered.payload.sessionConfig.timestamp
         /\ delivered.base < v.sessionConfig.timestamp ) =>
         config' = IF delivered.payload.sessionConfig.timestamp < v.sessionConfig.timestamp
                   THEN v.config
                   ELSE delivered.payload.config]_vars

\* C3: delivering the notification that was just delivered once more changes
\* nothing of config, sessionConfig, syncRetryCount and pollingActive.
RedeliveryChangesNothing ==
  [][\A r \in Rand :
       (delivered # NULL /\ StorageEventOn(STORE_KEY, delivered.payload, r)) =>
         UNCHANGED <<config, sessionConfig, syncRetryCount, pollingActive>>]_vars

\* C4: config is null exactly when sessionConfig is null.
ConfigAndSessionTogether == (config = NULL) <=> (sessionConfig = NULL)

\* C4 witness: a payload with a SessionMetadata and no Configuration reached a
\* tab that holds nothing, and was rejected
NullConfigPayloadRejected ==
  /\ lastOp = [name |-> "storage", outcome |-> "threw"]
  /\ config = NULL
  /\ sessionConfig = NULL
  /\ syncRetryCount > 0

\* C5: every SessionMetadata the tab records carries a timestamp strictly
\* greater than the one it recorded before.
StampsStrictlyIncrease ==
  [][(lastStamp # 0 /\ WritesSession) => sessionConfig'.timestamp > lastStamp]_vars

\* C6: a load of a persisted record older than 24h ends with nothing held,
\* counter 0, polling off and the active medium as probed at creation; a load
\* of a record at most 24h old keeps its Configuration.
ExpiryAtLoad ==
  [][\A actual \in StorageTypes :
       (LoadOn(actual) /\ stored.kind = "json" /\ stored.sessionConfig # NULL) =>
         IF now - stored.sessionConfig.timestamp > 24 * 60 * 60 * 1000
         THEN /\ config' = NULL
              /\ sessionConfig' = NULL
              /\ syncRetryCount' = 0
              /\ pollingActive' = FALSE
              /\ storageType' = storageType
         ELSE config' = stored.config]_vars

\* C6 witness: a record exactly 24h old was loaded and kept
LoadedAtExactly24h ==
  /\ lastOp = [name |-> "load", outcome |-> "restored"]
  /\ config # NULL
  /\ sessionConfig # NULL
  /\ now - sessionConfig.timestamp = 24 * 60 * 60 * 1000

\* C7: no load, notification or tick adopts a record that is older than 24h
\* when it is processed.
NeverAdoptsExpired ==
  [][/\ \A v \in Payloads, r \in Rand :
          ( /\ StorageEventOn(STORE_KEY, v, r)
            /\ storageListener(Cur, STORE_KEY, v, now, r).outcome = "adopted" ) =>
            ~(now - v.sessionConfig.timestamp > 24 * 60 * 60 * 1000)
     /\ \A h \in Handles, r \in Rand :
          ( /\ PollTickOn(h, r)
            /\ pollingCallback(Cur, timers[h], now, r).outcome = "adopted" ) =>
            ~(now - getItem(Cur, timers[h].storageType).sessionConfig.timestamp
                > 24 * 60 * 60 * 1000)
     /\ LoadEnds({"restored", "reprobed"}) =>
          ~(now - stored.sessionConfig.timestamp > 24 * 60 * 60 * 1000)]_vars

\* C8: counted from counter 0 and flag off, the flag is off after the 1st and
\* the 2nd failure in a row and on from the 3rd; after a reset (also one that
\* follows two failures) the counter is 0 and the flag off.
EscalationAtThird ==
  /\ failRun \in {1, 2} => ~pollingActive /\ syncRetryCount = failRun
  /\ failRun >= 3 => pollingActive /\ syncRetryCount = failRun
  /\ failRun = 0 => ~pollingActive /\ syncRetryCount = 0

\* C8 witness: the third failure in a row has switched polling on
ThirdFailureEscalated == failRun = 3 /\ pollingActive /\ syncRetryCount = 3

\* C9 as claimed: pollingActive goes on only in the third failure in a row and
\* off only in a reconciliation that adopted a record.
OnlyTheTwoNamedTransitions ==
  [][/\ (~pollingActive /\ pollingActive') => (SyncFailure /\ failRun' = 3)
     /\ (pollingActive /\ ~pollingActive') => Adoption]_vars

\* C9 amended: pollingActive goes on only in a failure that brings the counter
\* to 3 or more or in setPollingActive(true), and off only in an adopting
\* reconciliation, resetSyncRetry, clearConfig or setPollingActive(false).
TransitionsOfPollingActive ==
  [][/\ (~pollingActive /\ pollingActive') =>
          \/ SetPollingActiveOn(TRUE)
          \/ syncRetryCount' >= 3 /\ SyncFailure
     /\ (pollingActive /\ ~pollingActive') =>
          \/ ResetSyncRetry
          \/ ClearConfig
          \/ SetPollingActiveOn(FALSE)
          \/ Adoption]_vars

\* C9 witness: polling is on although fewer than three failures were counted
PollingForcedOn == failRun = -1 /\ pollingActive /\ syncRetryCount < 3

\* C10: at most one interval exists, one exists exactly when pollingActive is
\* true, and it is the one pollingInterval names.
PollingTimerInvariant ==
  /\ Cardinality(ActiveTimers(timers)) <= 1
  /\ (ActiveTimers(timers) # {}) <=> pollingActive
  /\ pollingActive => ActiveTimers(timers) = {pollingInterval}
  /\ ~pollingActive => pollingInterval = 0

\* C10 witness: a tick adopted a record and cancelled its own interval
TickCancelledItsInterval ==
  /\ lastOp = [name |-> "poll", outcome |-> "adopted"]
  /\ ActiveTimers(timers) = {}
  /\ pollingInterval = 0
  /\ ~pollingActive

\* C11: a tick whose interval reads the tab's own active medium adopts the
\* persisted record exactly when the record's timestamp is strictly greater than
\* the timestamp the tab holds at the tick; otherwise it changes nothing and
\* polling stays on.
TickComparesWithCurrentState ==
  pc = "ready" =>
    \A h \in ActiveTimers(timers), r \in Rand :
      ( /\ timers[h].storageType = storageType
        /\ getItem(Cur, storageType).kind = "json"
        /\ getItem(Cur, storageType).config # NULL
        /\ getItem(Cur, storageType).sessionConfig # NULL ) =>
        LET item == getItem(Cur, storageType)
            after == pollingCallback(Cur, timers[h], now, r).s
        IN IF item.sessionConfig.timestamp >
                (IF sessionConfig = NULL THEN 0 ELSE sessionConfig.timestamp)
           THEN /\ after.config = item.config
                /\ after.pollingActive = FALSE
           ELSE /\ after.config = config
                /\ after.sessionConfig = sessionConfig
                /\ after.syncRetryCount = syncRetryCount
                /\ after.pollingActive = TRUE

\* C12: a notification for the store key that cannot be parsed, or whose
\* Configuration cannot be applied, adds exactly 1 to syncRetryCount and leaves
\* config and sessionConfig; a tick that reads text it cannot parse leaves
\* config, sessionConfig, syncRetryCount and pollingActive; both callbacks end
\* in their catch block.
FailuresAreAbsorbed ==
  pc = "ready" =>
    /\ \A v \in Payloads, r \in Rand :
         LET res == storageListener(Cur, STORE_KEY, v, now, r) IN
         ( \/ v.kind = "malformed"
           \/ /\ v.kind = "json"
              /\ v.sessionConfig # NULL
              /\ v.config = NULL
              /\ v.sessionConfig.timestamp >
                   (IF sessionConfig = NULL THEN 0 ELSE sessionConfig.timestamp) ) =>
           /\ res.outcome \in {"unparsable", "threw"}
           /\ res.s.syncRetryCount = syncRetryCount + 1
           /\ res.s.config = config
           /\ res.s.sessionConfig = sessionConfig
    /\ \A h \in ActiveTimers(timers), r \in Rand :
         LET res == pollingCallback(Cur, timers[h], now, r) IN
         ( /\ timers[h].storageType # "unavailable"
           /\ getItem(Cur, timers[h].storageType).kind = "malformed" ) =>
           /\ res.outcome = "unparsable"
           /\ res.s.syncRetryCount = syncRetryCount
           /\ res.s.pollingActive = pollingActive
           /\ res.s.config = config
           /\ res.s.sessionConfig = sessionConfig

\* C12 witness: a tab that holds a Configuration was handed a newer payload
\* without one; it counted one failure and kept what it held
FailureCountedOnce ==
  /\ lastOp = [name |-> "storage", outcome |-> "threw"]
  /\ config # NULL
  /\ sessionConfig # NULL
  /\ syncRetryCount = 1

\* C14: a load of a persisted record that is not expired and names another
\* medium than the one probed leaves the store's storageType and the
\* SessionMetadata's storageType equal to the probed medium; when the record
\* names the probed medium the load changes neither the store's storageType nor
\* the SessionMetadata.
ReprobeAtLoad ==
  pc = "boot" =>
    \A actual \in StorageTypes :
      ( /\ stored.kind = "json"
        /\ stored.sessionConfig # NULL
        /\ ~(now - stored.sessionConfig.timestamp > 24 * 60 * 60 * 1000) ) =>
        LET after == onRehydrateStorage(Cur, actual, now).s IN
        IF stored.sessionConfig.storageType # actual
        THEN /\ after.storageType = actual
             /\ after.sessionConfig.storageType = actual
        ELSE /\ after.storageType = storageType
             /\ after.sessionConfig = stored.sessionConfig

\* C14 witness: a load found another medium than the record named and
\* corrected both places
LoadReprobed ==
  /\ lastOp = [name |-> "load", outcome |-> "reprobed"]
  /\ sessionConfig # NULL
  /\ sessionConfig.storageType = storageType
  /\ stored.sessionConfig.storageType = storageType

\* C16: setConfig(c) leaves config = c and a SessionMetadata with c's diceSides
\* and selectionMethod, the current time and the store's storageType, and leaves
\* syncRetryCount, pollingActive and storageType as they were.
SetConfigFrame ==
  pc = "ready" =>
    \A c \in Configs, r \in Rand :
      LET after == setConfig(Cur, c, now, r) IN
      /\ after.config = c
      /\ after.sessionConfig.diceSides = c.diceSides
      /\ after.sessionConfig.selectionMethod = c.selectionMethod
      /\ after.sessionConfig.timestamp = now
      /\ after.sessionConfig.storageType = storageType
      /\ after.syncRetryCount = syncRetryCount
      /\ after.pollingActive = pollingActive
      /\ after.storageType = storageType

\* C16 witness: setConfig was called while the tab was polling on an
\* unavailable medium
SetConfigWhilePolling ==
  /\ lastOp = Called
  /\ config # NULL
  /\ sessionConfig # NULL
  /\ sessionConfig.timestamp = now
  /\ sessionConfig.syncKey.t = now
  /\ sessionConfig.storageType = "unavailable"
  /\ storageType = "unavailable"
  /\ pollingActive
  /\ syncRetryCount = 3

\* partial SessionConfig objects the frame of updateSessionConfig is checked with
CheckedUpdates ==
  Updates \cup {[storageType |-> "sessionStorage"],
                [diceSides |-> 20, timestamp |-> 1]}

\* C17: updateSessionConfig(updates) changes nothing when there is no
\* SessionMetadata; otherwise the supplied fields other than timestamp take the
\* supplied values, timestamp becomes the current time, the other fields stay,
\* and config, syncRetryCount, pollingActive and storageType stay.
UpdateSessionConfigFrame ==
  pc = "ready" =>
    \A u \in CheckedUpdates :
      LET after == updateSessionConfig(Cur, u, now) IN
      IF sessionConfig = NULL
      THEN after = Cur
      ELSE /\ \A f \in DOMAIN sessionConfig :
                after.sessionConfig[f] =
                  IF f = "timestamp" THEN now
                  ELSE IF f \in DOMAIN u THEN u[f]
                  ELSE sessionConfig[f]
           /\ DOMAIN after.sessionConfig = DOMAIN sessionConfig
           /\ after.config = config
           /\ after.syncRetryCount = syncRetryCount
           /\ after.pollingActive = pollingActive
           /\ after.storageType = storageType

\* C17 witness: the SessionMetadata written by an earlier setConfig was
\* refreshed by a later updateSessionConfig
SessionRefreshed ==
  /\ lastOp = Called
  /\ sessionConfig # NULL
  /\ sessionConfig.timestamp = now
  /\ sessionConfig.syncKey.t < now

\* C18: clearConfig leaves config and sessionConfig null, syncRetryCount 0 and
\* pollingActive false with no interval left, and storageType as it was.
ClearConfigFrame ==
  pc = "ready" =>
    LET after == clearConfig(Cur) IN
    /\ after.config = NULL
    /\ after.sessionConfig = NULL
    /\ after.syncRetryCount = 0
    /\ after.pollingActive = FALSE
    /\ after.pollingInterval = 0
    /\ ActiveTimers(after.timers) = {}
    /\ after.storageType = storageType

\* C18 witness: clearConfig was called and the tab holds nothing
ClearedEverything ==
  /\ lastOp = Cleared
  /\ config = NULL
  /\ sessionConfig = NULL
  /\ syncRetryCount = 0
  /\ ~pollingActive
  /\ ActiveTimers(timers) = {}
  /\ storageType = "unavailable"

\* C13: getStorageType returns localStorage when the primary probe succeeds,
\* sessionStorage when the primary probe throws and the fallback probe succeeds,
\* unavailable when both throw; the fallback is not touched when the primary
\* probe succeeds.
MediumSelection ==
  (probe # NULL /\ probe.returned # NULL) =>
    LET primary == probe.env.localStorage = "works"
        fallback == probe.env.sessionStorage = "works"
    IN /\ primary => probe.returned.type = "localStorage"
       /\ (~primary /\ fallback) => probe.returned.type = "sessionStorage"
       /\ (~primary /\ ~fallback) => probe.returned.type = "unavailable"
       /\ primary =>
            \A i \in 1 .. Len(probe.returned.probed) :
              probe.returned.probed[i] # "sessionStorage"

\* C13 witness: the primary medium threw on the write and the fallback was taken
FellBackToSessionStorage ==
  /\ probe # NULL
  /\ probe.returned # NULL
  /\ probe.env.localStorage = "setItem throws"
  /\ probe.env.sessionStorage = "works"
  /\ probe.returned.type = "sessionStorage"

\* what customSides writes: an integer in range, an integer out of range,
\* nothing, or something that is no integer
Written(body) ==
  CASE body.t = "none" -> "nothing"
    [] body.t = "number" ->
         IF body.kind # "int" THEN "no integer"
         ELSE IF body.v >= 2 /\ body.v <= 1000 THEN "in range"
         ELSE "out of range"
    [] body.t = "string" ->
         IF \A i \in 1 .. Len(body.chars) : body.chars[i] = " " THEN "nothing"
         ELSE IF \E i \in 1 .. Len(body.chars) : body.chars[i] \notin Digits THEN "no integer"
         ELSE LET zeros == {i \in 1 .. Len(body.chars) :
                              \A j \in 1 .. i : body.chars[j] = "0"}
                  digits == Len(body.chars) - Cardinality(zeros)
              IN IF digits > 4 THEN "out of range"
                 ELSE LET n == Decimal(SubSeq(body.chars, Cardinality(zeros) + 1,
                                              Len(body.chars)))
                      IN IF n >= 2 /\ n <= 1000 THEN "in range" ELSE "out of range"

\* C15: diceConfigValidateCustom answers isValid exactly for an integer in
\* [2, 1000], errorPriority 1 for what is no integer (also when it is out of
\* range as well), errorPriority 2 for nothing and for an integer out of range.
ValidationVerdict ==
  (checked # NULL /\ checked.result # NULL) =>
    checked.result =
      CASE Written(checked.body) = "in range" -> [isValid |-> TRUE, errorPriority |-> 0]
        [] Written(checked.body) = "no integer" -> [isValid |-> FALSE, errorPriority |-> 1]
        [] OTHER -> [isValid |-> FALSE, errorPriority |-> 2]

\* C19: when the user sets a Configuration once and does nothing more, the
\* tabs come to rest: from some point on no storage event is queued, so no tab
\* adopts and nothing is written.
PropagationComesToRest ==
  [](Len(chosen) <= 1) => <>[](\A i \in Tabs : inbox[i] = <<>>)

\* C20: once the user has made a second choice, later in time than the first
\* and different from it, no tab that holds the second choice is switched to
\* the first, and the persisted record is not overwritten with the first choice
\* once it held the second.
NoRollbackOfNewerChoice ==
  [][( /\ Len(chosen) = 2
       /\ chosen[2].later
       /\ chosen[1].config # chosen[2].config
       /\ chosen' = chosen ) =>
       /\ \A i \in Tabs :
            tabs[i].config = chosen[2].config => tabs'[i].config # chosen[1].config
       /\ disk.config = chosen[2].config => disk'.config # chosen[1].config]_vars

\* C21: whenever no storage event is queued in any tab, every tab that holds
\* a Configuration holds the diceSides and selectionMethod of the persisted
\* record, when that record has a Configuration.
TabsAgreeAtRest ==
  (tabs # NULL /\ \A i \in Tabs : inbox[i] = <<>>) =>
    \A i \in Tabs :
      (tabs[i].config # NULL /\ disk.config # NULL) =>
        /\ tabs[i].config.diceSides = disk.config.diceSides
        /\ tabs[i].config.selectionMethod = disk.config.selectionMethod

\* C22: a load of a persisted record that is not expired leaves the tab's
\* SessionMetadata, and the record written back, with the timestamp the
\* persisted record had, whether the probed medium is the recorded one or not.
LoadKeepsTimestamp ==
  [][LoadEnds({"restored", "reprobed"}) =>
       /\ sessionConfig'.timestamp = stored.sessionConfig.timestamp
       /\ stored'.sessionConfig.timestamp = stored.sessionConfig.timestamp]_vars

====
